---- MODULE Spec2Model ----
(***************************************************************************)
(* A model of the Go rules engine AlphaGoZero/go.py (class GameState).     *)
(*                                                                         *)
(* A GameState object is a record of its fields.  The Python sets stored   *)
(* in group_sets and liberty_sets are objects shared by reference between  *)
(* the cells of one group and mutated in place, so the model keeps a heap: *)
(* a sequence of set values indexed by object id, and group_sets[p] and    *)
(* liberty_sets[p] hold object ids.  Two GameState objects live in the     *)
(* model: s, the game under play, and c, the copy taken of it.  seen is a  *)
(* history variable: the boards left by the stone moves made on s.         *)
(*                                                                         *)
(* A 64-bit hash value is the set of its one-bits; XOR is the symmetric    *)
(* difference.  Scores are kept doubled so that komi 7.5 is an integer.    *)
(***************************************************************************)
EXTENDS Integers, Sequences, FiniteSets, TLC

VARIABLES s, c, copied, heap, result, seen, stack,
          w_pending, r_lock, r_count, lock_pc, lock_tmp, lock_calls,
          data, ack, send_pc, recv_pc, recv_msg, sent, taken, returned,
          queue, conn_idx_queue, conns, req_pc, req_i, req_r, req_res, held, req_calls

goVars == <<s, c, copied, heap, result, seen, stack>>
lockVars == <<w_pending, r_lock, r_count, lock_pc, lock_tmp, lock_calls>>
connVars == <<data, ack, send_pc, recv_pc, recv_msg, sent, taken, returned>>
recVars == <<queue, conn_idx_queue, conns, req_pc, req_i, req_r, req_res, held, req_calls>>
utilVars == <<lockVars, connVars, recVars>>
vars == <<goVars, utilVars>>

WHITE == -1
BLACK == 1
EMPTY == 0
None == << >>
PASS_MOVE == None

\* ------------------------------------------------------------------ bounds
Size == 3
HistoryLength == 3
MaxMoves == 3
MaxCopyDepth == 4
MaxCopyPasses == 2
MaxHandicaps == 2
MaxKoMoves == 8
MaxKoPasses == 2
MaxRowMoves == 7
MaxRowPasses == 1
MaxPairMoves == 6
MaxPairPasses == 1
MaxEyeMoves == 4
MaxTrackerMoves == 4
NumProcs == 3
MaxLockCalls == 4
NumMsgs == 3
MaxSends == 3
NumClients == 3
conn_num == 2
MaxReqs == 4

Pos == (0 .. Size - 1) \X (0 .. Size - 1)

\* ------------------------------------------------------- small utilities
RECURSIVE SetToSeq(_)
SetToSeq(S) ==
  IF S = {} THEN << >>
  ELSE LET m == CHOOSE a \in S : \A b \in S : a[1] < b[1] \/ (a[1] = b[1] /\ a[2] <= b[2])
       IN  <<m>> \o SetToSeq(S \ {m})

InSeq(x, q) == \E i \in 1 .. Len(q) : q[i] = x

XOR(a, b) == {i \in 0 .. 63 : (i \in a) # (i \in b)}

\* ------------------------------------------------------- neighbour table
on_board(position) ==
  /\ position[1] >= 0 /\ position[2] >= 0
  /\ position[1] < Size /\ position[2] < Size

\* _create_neighbors_cache: the table for this board size, computed once.
NEIGHBORS_CACHE ==
  [p \in Pos |->
     SelectSeq(<< <<p[1] - 1, p[2]>>, <<p[1] + 1, p[2]>>, <<p[1], p[2] - 1>>, <<p[1], p[2] + 1>> >>,
               on_board)]

\* _neighbors
neighbors(position) == NEIGHBORS_CACHE[position]

NeighborSets == [p \in Pos |-> {NEIGHBORS_CACHE[p][i] : i \in 1 .. Len(NEIGHBORS_CACHE[p])}]

NeighborSet(position) == NeighborSets[position]

\* ------------------------------------------------------------ hash table
\* np.random.RandomState(0).randint(2^64 - 1, size = (3, 3), dtype = uint64),
\* drawn for WHITE first and then for BLACK; each value as its set of one-bits.
hash_lookup ==
  [col \in {WHITE, BLACK} |->
    IF col = WHITE
    THEN ( <<0,0>> :> {0,1,2,3,5,9,11,13,15,18,22,23,24,25,26,28,31,34,35,37,39,41,43,48,49,50,51,52,53,54,58,59,63}
        @@ <<0,1>> :> {6,7,10,11,14,15,16,21,27,28,30,31,32,34,36,37,38,41,42,45,47,49,50,52,56,57,58,60,61,63}
        @@ <<0,2>> :> {0,1,3,4,5,6,7,9,12,14,17,21,23,24,25,27,28,30,31,32,33,38,40,41,44,45,47,49,50,51,54,57,59,60,63}
        @@ <<1,0>> :> {0,1,2,5,6,8,10,11,12,13,14,16,18,21,22,23,27,28,30,31,32,33,38,39,41,42,44,45,46,48,50,51,52,53,54,56,57,59,63}
        @@ <<1,1>> :> {0,1,4,6,7,9,10,11,12,14,15,16,21,23,24,25,26,27,28,31,32,35,42,45,47,50,52,53,54,58,59,61,62}
        @@ <<1,2>> :> {1,4,5,6,7,9,10,12,14,15,17,18,21,22,25,29,30,32,34,36,40,44,46,48,51,52,54,56,58,61,63}
        @@ <<2,0>> :> {0,1,2,4,6,9,11,12,13,16,17,19,21,26,27,30,34,37,40,41,42,44,45,47,48,50,60,61,62}
        @@ <<2,1>> :> {3,4,6,7,8,10,11,12,13,15,18,23,25,26,27,33,34,38,42,43,44,45,48,49,51,54,58,61,62,63}
        @@ <<2,2>> :> {2,3,7,8,10,11,14,15,18,19,22,23,24,26,30,35,36,38,41,43,44,47,49,52,53,55,57,58,60,61,62,63} )
    ELSE ( <<0,0>> :> {0,6,7,9,14,19,22,25,27,28,29,30,33,35,36,37,40,43,44,45,48,51,53,57,61,62}
        @@ <<0,1>> :> {0,1,2,5,9,11,14,17,19,21,22,23,24,25,26,27,30,31,33,34,37,38,39,40,42,43,44,45,46,49,50,51,53,55,57,59,62,63}
        @@ <<0,2>> :> {1,2,3,5,7,11,14,15,16,17,18,19,20,22,23,25,27,28,29,30,32,33,34,36,38,43,45,47,48,50,53,54,56,57,58,63}
        @@ <<1,0>> :> {0,4,6,8,9,11,15,16,18,19,23,26,29,30,35,36,38,41,42,43,44,46,48,49,51,53,54,56,60,63}
        @@ <<1,1>> :> {0,3,4,9,14,16,19,25,26,28,30,31,32,34,37,39,41,42,45,46,47,48,49,52,53,54,55,58,59,61,62,63}
        @@ <<1,2>> :> {3,6,11,12,15,16,17,18,19,20,22,25,26,28,30,32,34,35,38,40,41,43,45,46,48,49,50,51,53,57,60}
        @@ <<2,0>> :> {2,4,7,8,9,10,12,15,17,18,19,21,22,23,24,26,29,31,32,35,40,41,43,44,49,50,51,54,57,58,60}
        @@ <<2,1>> :> {4,6,7,8,9,12,16,18,22,25,26,27,28,30,32,33,36,37,38,43,48,50,51,53,56,58}
        @@ <<2,2>> :> {0,2,6,7,9,10,11,12,19,24,26,28,29,30,31,32,33,36,37,38,39,41,44,47,49,50,53,56,58,60,62,63} )]

\* --------------------------------------------------------- construction
\* Object ids of a freshly constructed state: the liberty set of cell number
\* k (row-major, from 1) is object base + k, its group set base + Size^2 + k.
CellNo(p) == p[1] * Size + p[2] + 1

EmptyBoard == [p \in Pos |-> EMPTY]

\* __init__: the fields of a new GameState whose sets are allocated after
\* `base` objects of the heap.
NewGameState(komi2, enforce_superko, base) ==
  [ board |-> EmptyBoard,
    current_player |-> BLACK,
    ko |-> None,
    komi2 |-> komi2,
    handicaps |-> << >>,
    history |-> << >>,
    board_history |-> [i \in 1 .. HistoryLength - 1 |-> EmptyBoard],
    num_black_prisoners |-> 0,
    num_white_prisoners |-> 0,
    is_end_of_game |-> FALSE,
    passes_white |-> 0,
    passes_black |-> 0,
    liberty_sets |-> [p \in Pos |-> base + CellNo(p)],
    liberty_counts |-> [p \in Pos |-> -1],
    group_sets |-> [p \in Pos |-> base + Size * Size + CellNo(p)],
    legal_move_cache |-> None,
    legal_eyes_cache |-> None,
    stone_ages |-> [p \in Pos |-> -1],
    enforce_superko |-> enforce_superko,
    current_hash |-> {},
    previous_hashes |-> {} ]

\* The set objects __init__ allocates: set(neighbors) per cell, then set().
NewHeapObjects ==
  [k \in 1 .. 2 * Size * Size |->
     IF k <= Size * Size
     THEN NeighborSet(<<(k - 1) \div Size, (k - 1) % Size>>)
     ELSE {}]

\* ------------------------------------------------- group/liberty tracker
\* The neighbour loop of _update_neighbors works on L, which holds what the
\* loop mutates: the heap, liberty_counts and merged_group.
\* First statement of a pass: position is no liberty of neighbour n any more.
update_neighbors_discard(g, position, L, n) ==
  [L EXCEPT !.heap[g.liberty_sets[n]] = @ \ {position}]

\* Rest of a pass: an enemy group gets its count refreshed, a friendly group
\* is merged.
update_neighbors_branch(g, position, L, n) ==
  IF g.board[n] = -g.current_player
  THEN [L EXCEPT !.counts = [q \in Pos |-> IF q \in L.heap[g.group_sets[n]]
                                           THEN Cardinality(L.heap[g.liberty_sets[n]])
                                           ELSE L.counts[q]]]
  ELSE IF g.board[position] = g.board[n]
  THEN [L EXCEPT !.heap[g.liberty_sets[position]] = @ \cup L.heap[g.liberty_sets[n]],
                 !.merged_group = @ \cup L.heap[g.group_sets[n]]]
  ELSE L

\* One pass of the neighbour loop of _update_neighbors, for neighbour n.
update_neighbors_step(g, position, L, n) ==
  update_neighbors_branch(g, position, update_neighbors_discard(g, position, L, n), n)

RECURSIVE update_neighbors_loop(_, _, _, _)
update_neighbors_loop(g, position, L, ns) ==
  IF ns = << >> THEN L
  ELSE update_neighbors_loop(g, position,
                             update_neighbors_step(g, position, L, Head(ns)), Tail(ns))

\* _update_neighbors: a stone of g.current_player was just put at position.
\* merged_libs is the set object already stored at position; merged_group is
\* a new object.
\* The closing loop of _update_neighbors with the merged sets stored at the
\* new stone only, not at every member of merged_group.
update_neighbors_merge_new_stone_only(g, L, position) ==
  [ g |-> [g EXCEPT
             !.group_sets[position] = Len(L.heap) + 1,
             !.liberty_counts = [q \in Pos |-> IF q \in L.merged_group
                                               THEN Cardinality(L.heap[g.liberty_sets[position]])
                                               ELSE L.counts[q]]],
    heap |-> Append(L.heap, L.merged_group) ]

update_neighbors_merge(g, L, position) ==
  LET merged_libs == g.liberty_sets[position]
      new_group == Len(L.heap) + 1
      count_merged_libs == Cardinality(L.heap[merged_libs])
  IN  [ g |-> [g EXCEPT
                 !.group_sets = [q \in Pos |-> IF q \in L.merged_group THEN new_group ELSE g.group_sets[q]],
                 !.liberty_sets = [q \in Pos |-> IF q \in L.merged_group THEN merged_libs ELSE g.liberty_sets[q]],
                 !.liberty_counts = [q \in Pos |-> IF q \in L.merged_group
                                                   THEN count_merged_libs ELSE L.counts[q]]],
        heap |-> Append(L.heap, L.merged_group) ]

\* _update_neighbors: the neighbour loop, then the loop over merged_group.
update_neighbors(g, h, position) ==
  update_neighbors_merge(g,
    update_neighbors_loop(g, position,
      [heap |-> h, counts |-> g.liberty_counts, merged_group |-> {position}],
      neighbors(position)),
    position)

\* _update_hash
update_hash(g, action, color) ==
  [g EXCEPT !.current_hash = XOR(@, hash_lookup[color][action])]

\* First loop of _remove_group without the hash update.
remove_group_clear_keeps_hash(g, members) ==
  [g EXCEPT !.board = [p \in Pos |-> IF InSeq(p, members) THEN EMPTY ELSE g.board[p]]]

\* First loop of _remove_group: toggle each stone out of the hash, clear it.
RECURSIVE remove_group_clear(_, _)
remove_group_clear(g, members) ==
  IF members = << >> THEN g
  ELSE remove_group_clear(
         [update_hash(g, Head(members), g.board[Head(members)])
            EXCEPT !.board[Head(members)] = EMPTY],
         Tail(members))

\* The inner loop of _remove_group without the liberty counts refreshed.
remove_group_neighbor_stale_counts(w, p, n) ==
  IF w.g.board[n] = EMPTY
  THEN [w EXCEPT !.heap[w.g.liberty_sets[p]] = @ \cup {n}]
  ELSE [w EXCEPT !.heap[w.g.liberty_sets[n]] = @ \cup {p}]

\* Inner loop of the second loop of _remove_group, for the removed cell p
\* and its neighbour n; w is [g, heap].
remove_group_neighbor(w, p, n) ==
  IF w.g.board[n] = EMPTY
  THEN [w EXCEPT !.heap[w.g.liberty_sets[p]] = @ \cup {n}]
  ELSE [w EXCEPT
          !.heap[w.g.liberty_sets[n]] = @ \cup {p},
          !.g.liberty_counts =
             [q \in Pos |-> IF q \in w.heap[w.g.group_sets[n]]
                            THEN Cardinality(w.heap[w.g.liberty_sets[n]] \cup {p})
                            ELSE w.g.liberty_counts[q]]]

RECURSIVE remove_group_neighbors(_, _, _)
remove_group_neighbors(w, p, ns) ==
  IF ns = << >> THEN w
  ELSE remove_group_neighbors(remove_group_neighbor(w, p, Head(ns)), p, Tail(ns))

\* Second loop of _remove_group: fresh empty sets for each removed cell
\* (the group set is made first), then the liberties it gives and gets.
remove_group_fresh(w, p) ==
  [ g |-> [w.g EXCEPT
             !.group_sets = [q \in Pos |-> IF q = p THEN Len(w.heap) + 1 ELSE w.g.group_sets[q]],
             !.liberty_sets = [q \in Pos |-> IF q = p THEN Len(w.heap) + 2 ELSE w.g.liberty_sets[q]],
             !.liberty_counts = [q \in Pos |-> IF q = p THEN -1 ELSE w.g.liberty_counts[q]],
             !.stone_ages = [q \in Pos |-> IF q = p THEN -1 ELSE w.g.stone_ages[q]]],
    heap |-> w.heap \o << {}, {} >> ]

RECURSIVE remove_group_reset(_, _)
remove_group_reset(w, members) ==
  IF members = << >> THEN w
  ELSE remove_group_reset(
         remove_group_neighbors(remove_group_fresh(w, Head(members)),
                                Head(members), neighbors(Head(members))),
         Tail(members))

\* _remove_group(group): group is the set object whose id is given.
remove_group(g, h, group) ==
  remove_group_reset([g |-> remove_group_clear(g, SetToSeq(h[group])), heap |-> h],
                     SetToSeq(h[group]))

\* ------------------------------------------------------------------ copy
\* The set objects a state refers to.
RefsOf(g) == {g.group_sets[p] : p \in Pos} \cup {g.liberty_sets[p] : p \in Pos}

Rank(i, R) == Cardinality({j \in R : j <= i})

\* copy.get_copy with every object shared instead of copied.
get_copy_shared(i, R, base) == i

\* copy.get_copy with one copy handed out for every object.
get_copy_one_object(i, R, base) == base + 1

\* copy.get_copy: the id of the one copy made of object i, where R are the
\* objects of the state being copied and the copies are allocated after
\* `base` objects; the same object always gives the same copy.
get_copy(i, R, base) == base + Rank(i, R)

\* copy(): a new GameState(size, komi) with the copied fields written over
\* it.  passes_white, passes_black, is_end_of_game, stone_ages and the move
\* caches are not written, so they keep their values from __init__.
copy(g, h) ==
  LET R == RefsOf(g)
      base == Len(h)
      other == NewGameState(g.komi2, FALSE, base)
      copies == [k \in 1 .. Cardinality(R) |-> h[CHOOSE i \in R : Rank(i, R) = k]]
  IN  [ g |-> [other EXCEPT
                 !.board = g.board,
                 !.current_player = g.current_player,
                 !.ko = g.ko,
                 !.handicaps = g.handicaps,
                 !.history = g.history,
                 !.board_history = g.board_history,
                 !.num_black_prisoners = g.num_black_prisoners,
                 !.num_white_prisoners = g.num_white_prisoners,
                 !.enforce_superko = g.enforce_superko,
                 !.current_hash = g.current_hash,
                 !.previous_hashes = g.previous_hashes,
                 !.group_sets = [p \in Pos |-> get_copy(g.group_sets[p], R, base)],
                 !.liberty_sets = [p \in Pos |-> get_copy(g.liberty_sets[p], R, base)],
                 !.liberty_counts = g.liberty_counts],
        heap |-> h \o copies ]

\* -------------------------------------------------------------- legality
\* The neighbour loop of is_suicide without the test for a killed enemy group.
is_suicide_loop_no_capture(g, h, action, ns) ==
  \A i \in 1 .. Len(ns) :
    ~( /\ g.board[ns[i]] = g.current_player
       /\ Cardinality(h[g.liberty_sets[ns[i]]] \ {action}) > 0 )

RECURSIVE is_suicide_loop(_, _, _, _)
is_suicide_loop(g, h, action, ns) ==
  IF ns = << >> THEN TRUE
  ELSE LET n == Head(ns)
           is_friendly_group == g.board[n] = g.current_player
           group_has_other_liberties == Cardinality(h[g.liberty_sets[n]] \ {action}) > 0
           is_enemy_group == g.board[n] = -g.current_player
       IN  IF is_friendly_group /\ group_has_other_liberties THEN FALSE
           ELSE IF is_enemy_group /\ ~group_has_other_liberties THEN FALSE
           ELSE is_suicide_loop(g, h, action, Tail(ns))

\* is_suicide
is_suicide(g, h, action) ==
  LET num_liberties_here == Cardinality(h[g.liberty_sets[action]])
  IN  IF num_liberties_here = 0
      THEN is_suicide_loop(g, h, action, neighbors(action))
      ELSE FALSE

\* history[start::2], as the set of its entries (start is 0 or 1).
EveryOther(history, start) ==
  {history[i] : i \in {j \in 1 .. Len(history) : (j - 1) % 2 = start}}

RECURSIVE do_move(_, _, _, _)

\* The choice of player_history with the two parities exchanged.
player_history_other_parity(g) ==
  IF Len(g.handicaps) = 0 /\ g.current_player = BLACK THEN EveryOther(g.history, 1)
  ELSE IF Len(g.handicaps) > 0 /\ g.current_player = WHITE THEN EveryOther(g.history, 1)
  ELSE EveryOther(g.history, 0)

\* is_positional_superko: the actions the current player has made before.
player_history(g) ==
  IF Len(g.handicaps) = 0 /\ g.current_player = BLACK THEN EveryOther(g.history, 0)
  ELSE IF Len(g.handicaps) > 0 /\ g.current_player = WHITE THEN EveryOther(g.history, 0)
  ELSE EveryOther(g.history, 1)

\* is_positional_superko plays the move on a copy with enforce_superko off
\* and looks the resulting hash up in previous_hashes.  The result comes with
\* the heap after the call and with the exception the simulated move raised,
\* if any.  The objects of the disposable copy are dropped with it.
superko_simulate(made, action) ==
  do_move([made.g EXCEPT !.enforce_superko = FALSE], made.heap, action, 0)

superko_compare(g, h, sim) ==
  [ res |-> sim.g.current_hash \in g.previous_hashes,
    heap |-> SubSeq(sim.heap, 1, Len(h)),
    raised |-> sim.raised ]

is_positional_superko(g, h, action) ==
  IF ~InSeq(action, g.handicaps) /\ action \notin player_history(g)
  THEN [res |-> FALSE, heap |-> h, raised |-> "none"]
  ELSE superko_compare(g, h, superko_simulate(copy(g, h), action))

\* is_legal, with the heap and exception as for is_positional_superko.
not_superko(sk) == [sk EXCEPT !.res = ~@]

is_legal(g, h, action) ==
  IF action = PASS_MOVE THEN [res |-> TRUE, heap |-> h, raised |-> "none"]
  ELSE IF ~on_board(action) THEN [res |-> FALSE, heap |-> h, raised |-> "none"]
  ELSE IF g.board[action] # EMPTY THEN [res |-> FALSE, heap |-> h, raised |-> "none"]
  ELSE IF is_suicide(g, h, action) THEN [res |-> FALSE, heap |-> h, raised |-> "none"]
  ELSE IF action = g.ko THEN [res |-> FALSE, heap |-> h, raised |-> "none"]
  ELSE IF g.enforce_superko THEN not_superko(is_positional_superko(g, h, action))
  ELSE [res |-> TRUE, heap |-> h, raised |-> "none"]

\* ------------------------------------------------------ move application
\* The ko check with the captured point and the capturing stone exchanged.
ko_after_capture_at_stone(g, h, action, n, num_captured) ==
  IF /\ num_captured = 1
     /\ Cardinality(h[g.liberty_sets[action]]) = 1
     /\ Cardinality(h[g.group_sets[action]]) = 1
  THEN action ELSE g.ko

\* The ko check of do_move after the group at n was captured by the stone at
\* action: the value of self.ko after it.
ko_after_capture(g, h, action, n, num_captured) ==
  LET would_recapture == Cardinality(h[g.liberty_sets[action]]) = 1
      recapture_size_is_1 == Cardinality(h[g.group_sets[action]]) = 1
  IN  IF num_captured = 1 /\ would_recapture /\ recapture_size_is_1 THEN n ELSE g.ko

\* The prisoners counted for a captured group; w is [g, heap].
capture_count(w, color, num_captured) ==
  IF color = BLACK
  THEN [w EXCEPT !.g.num_white_prisoners = @ + num_captured]
  ELSE [w EXCEPT !.g.num_black_prisoners = @ + num_captured]

capture_ko(w, action, n, num_captured) ==
  [w EXCEPT !.g.ko = ko_after_capture(w.g, w.heap, action, n, num_captured)]

\* A pass of the capture loop that removes nothing.
capture_step_keeps_group(w, action, color, n) == w

\* One pass of the capture loop of do_move, for the neighbour n of the stone
\* of `color` just played at action: a group without liberties is removed,
\* counted, and checked for ko.
capture_step(w, action, color, n) ==
  IF w.g.board[n] = -color /\ Cardinality(w.heap[w.g.liberty_sets[n]]) = 0
  THEN capture_ko(
         capture_count(remove_group(w.g, w.heap, w.g.group_sets[n]),
                       color, Cardinality(w.heap[w.g.group_sets[n]])),
         action, n, Cardinality(w.heap[w.g.group_sets[n]]))
  ELSE w

RECURSIVE capture_loop(_, _, _, _)
capture_loop(w, action, color, ns) ==
  IF ns = << >> THEN w
  ELSE capture_loop(capture_step(w, action, color, Head(ns)), action, color, Tail(ns))

\* The stone branch of do_move (action is not PASS_MOVE): the stone is put,
\* hashed and joined to its neighbours, its age set, the captures made, and
\* the hash of the position recorded.
set_stone_age(w, action) ==
  [ g |-> [w.g EXCEPT !.stone_ages = [q \in Pos |-> IF q = action THEN 0 ELSE w.g.stone_ages[q]]],
    heap |-> w.heap ]

add_previous_hash(w) ==
  [ g |-> [w.g EXCEPT !.previous_hashes = @ \cup {w.g.current_hash}], heap |-> w.heap ]

place_stone(g, h, action, color) ==
  add_previous_hash(
    capture_loop(
      set_stone_age(
        update_neighbors(update_hash([g EXCEPT !.board[action] = color], action, color),
                         h, action),
        action),
      action, color, neighbors(action)))

\* The pass branch of do_move.
pass_move(g, color) ==
  LET g1 == IF color = BLACK THEN [g EXCEPT !.passes_black = @ + 1] ELSE g
  IN  IF color = WHITE THEN [g1 EXCEPT !.passes_white = @ + 1] ELSE g1

\* The end-of-game check that closes do_move.
end_of_game_check(g) ==
  IF /\ Len(g.history) > 1
     /\ g.history[Len(g.history)] = PASS_MOVE
     /\ g.history[Len(g.history) - 1] = PASS_MOVE
     /\ g.current_player = WHITE
  THEN [g EXCEPT !.is_end_of_game = TRUE]
  ELSE g

\* The failure branch of do_move without the player to move put back.
illegal_move_keeps_color(g, reset_player) == g

\* The failure branch of do_move: the player to move is put back.
illegal_move(g, reset_player) == [g EXCEPT !.current_player = reset_player]

\* The legal branch of do_move before the stone or pass: ko reset, stone
\* ages advanced, the board pushed on board_history.
legal_move_begin(g) ==
  [g EXCEPT !.ko = None,
            !.stone_ages = [p \in Pos |-> IF g.stone_ages[p] >= 0 THEN g.stone_ages[p] + 1 ELSE g.stone_ages[p]],
            !.board_history = Tail(Append(@, g.board))]

legal_move_apply(g, h, action, color) ==
  IF action # PASS_MOVE
  THEN place_stone(g, h, action, color)
  ELSE [g |-> pass_move(g, color), heap |-> h]

\* The legal branch after the stone or pass with the move cache kept.
legal_move_end_keeps_cache(w, action, color) ==
  LET g2 == end_of_game_check([w.g EXCEPT !.current_player = -color,
                                          !.history = Append(@, action)])
  IN  [g |-> g2, heap |-> w.heap, raised |-> "none", ended |-> g2.is_end_of_game]

\* The legal branch after the stone or pass: the player flipped, the action
\* appended to history, the move cache dropped, the end of game checked.
legal_move_end(w, action, color) ==
  LET g2 == end_of_game_check([w.g EXCEPT !.current_player = -color,
                                          !.history = Append(@, action),
                                          !.legal_move_cache = None])
  IN  [g |-> g2, heap |-> w.heap, raised |-> "none", ended |-> g2.is_end_of_game]

\* do_move once is_legal has answered `legal` for the state g with the
\* playing colour set.
do_move_checked(g, reset_player, action, color, legal) ==
  IF legal.raised # "none"
  THEN [g |-> g, heap |-> legal.heap, raised |-> legal.raised, ended |-> FALSE]
  ELSE IF legal.res
  THEN legal_move_end(legal_move_apply(legal_move_begin(g), legal.heap, action, color),
                      action, color)
  ELSE [ g |-> illegal_move(g, reset_player),
         heap |-> legal.heap, raised |-> "IllegalMove", ended |-> FALSE ]

\* do_move with the colour resolved.
do_move_as(g, h, action, color) ==
  do_move_checked([g EXCEPT !.current_player = color], g.current_player, action, color,
                  is_legal([g EXCEPT !.current_player = color], h, action))

\* do_move(action, color); color 0 stands for the omitted argument (None),
\* for which `color or self.current_player` takes the current player.  The
\* result is the state and heap after the call, the exception raised
\* ("none" when the call returns) and the value returned.
do_move(g, h, action, color) ==
  do_move_as(g, h, action, IF color # 0 THEN color ELSE g.current_player)

\* -------------------------------------------------------------- handicap
RECURSIVE place_handicaps_loop(_, _, _)

\* After the do_move m of one handicap stone: an exception ends the loop.
place_handicaps_next(m, rest) ==
  IF m.raised # "none"
  THEN [g |-> m.g, heap |-> m.heap, raised |-> m.raised]
  ELSE place_handicaps_loop(m.g, m.heap, rest)

place_handicaps_loop(g, h, actions) ==
  IF actions = << >> THEN [g |-> g, heap |-> h, raised |-> "none"]
  ELSE place_handicaps_next(do_move(g, h, Head(actions), BLACK), Tail(actions))

\* place_handicaps(actions).  After the loop the history is cleared; the
\* last statement then reads the names `size` and `history_length`, which
\* are bound nowhere in its scope, and raises NameError.
place_handicaps_reset(r) ==
  IF r.raised # "none" THEN r
  ELSE [r EXCEPT !.g.history = << >>, !.raised = "NameError"]

place_handicaps(g, h, actions) ==
  IF Len(g.history) > 0
  THEN [g |-> g, heap |-> h, raised |-> "IllegalMove"]
  ELSE place_handicaps_reset(
         place_handicaps_loop([g EXCEPT !.handicaps = @ \o actions], h, actions))

\* ---------------------------------------------------------------- scoring
\* is_eyeish
is_eyeish(g, position, owner) ==
  IF g.board[position] # EMPTY THEN FALSE
  ELSE \A i \in 1 .. Len(neighbors(position)) : g.board[neighbors(position)[i]] = owner

\* The loop of get_winner over the empty cells; sc is [white, black].
RECURSIVE get_winner_loop(_, _, _)
get_winner_loop(g, sc, empties) ==
  IF empties = << >> THEN sc
  ELSE LET empty == Head(empties)
           sc1 == IF is_eyeish(g, empty, BLACK) THEN [sc EXCEPT !.black = @ + 1]
                  ELSE IF is_eyeish(g, empty, WHITE) THEN [sc EXCEPT !.white = @ + 1]
                  ELSE sc
       IN  get_winner_loop(g, sc1, Tail(empties))

\* get_winner with the two pass penalties exchanged.
get_winner_passes_exchanged(g) ==
  LET sc == get_winner_loop(g,
              [ white |-> Cardinality({p \in Pos : g.board[p] = WHITE}),
                black |-> Cardinality({p \in Pos : g.board[p] = BLACK}) ],
              SetToSeq({p \in Pos : g.board[p] = EMPTY}))
      score_white2 == 2 * sc.white + g.komi2 - 2 * g.passes_black
      score_black2 == 2 * sc.black - 2 * g.passes_white
  IN  IF score_black2 > score_white2 THEN BLACK
      ELSE IF score_white2 > score_black2 THEN WHITE
      ELSE 0

\* get_winner; the two scores are compared doubled, komi2 being twice komi.
get_winner(g) ==
  LET sc == get_winner_loop(g,
              [ white |-> Cardinality({p \in Pos : g.board[p] = WHITE}),
                black |-> Cardinality({p \in Pos : g.board[p] = BLACK}) ],
              SetToSeq({p \in Pos : g.board[p] = EMPTY}))
      score_white2 == 2 * sc.white + g.komi2 - 2 * g.passes_white
      score_black2 == 2 * sc.black - 2 * g.passes_black
  IN  IF score_black2 > score_white2 THEN BLACK
      ELSE IF score_white2 > score_black2 THEN WHITE
      ELSE 0

\* ------------------------------------------------------------------- eyes
\* _diagonals
diagonals(position) ==
  SelectSeq(<< <<position[1] - 1, position[2] - 1>>, <<position[1] + 1, position[2] + 1>>,
               <<position[1] + 1, position[2] - 1>>, <<position[1] - 1, position[2] + 1>> >>,
            on_board)

\* allowable_bad_diagonal with one bad diagonal allowed everywhere.
allowable_one_everywhere(position) == 1

\* allowable_bad_diagonal of is_eye
allowable_bad_diagonal(position) == IF Len(neighbors(position)) = 4 THEN 1 ELSE 0

\* is_eye answers [res, stack]: the value returned and the list object
\* `stack` (the default argument, one list shared by all calls) after it.
RECURSIVE is_eye(_, _, _, _)
RECURSIVE is_eye_loop(_, _, _, _, _, _)

\* The recursive call of is_eye returning without stack.pop().
is_eye_keeps_stack(r) == r

\* stack.pop() after the recursive call answered r.
is_eye_pop(r) == [res |-> r.res, stack |-> SubSeq(r.stack, 1, Len(r.stack) - 1)]

\* The recursive call answered r: a diagonal that is no eye is bad.
is_eye_count(r, num_bad_diagonal) ==
  [bad |-> IF r.res THEN num_bad_diagonal ELSE num_bad_diagonal + 1, stack |-> r.stack]

\* The body of the loop of is_eye for the diagonal d, up to the pop.
is_eye_diagonal(g, position, owner, st, d, num_bad_diagonal) ==
  IF g.board[d] = -owner
  THEN [bad |-> num_bad_diagonal + 1, stack |-> st]
  ELSE IF g.board[d] = EMPTY /\ ~InSeq(d, st)
  THEN is_eye_count(is_eye_pop(is_eye(g, d, owner, Append(st, position))), num_bad_diagonal)
  ELSE [bad |-> num_bad_diagonal, stack |-> st]

\* The test that closes the body of the loop.
is_eye_next(g, position, owner, step, rest) ==
  IF step.bad > allowable_bad_diagonal(position)
  THEN [res |-> FALSE, stack |-> step.stack]
  ELSE is_eye_loop(g, position, owner, step.stack, rest, step.bad)

is_eye_loop(g, position, owner, st, ds, num_bad_diagonal) ==
  IF ds = << >> THEN [res |-> TRUE, stack |-> st]
  ELSE is_eye_next(g, position, owner,
                   is_eye_diagonal(g, position, owner, st, Head(ds), num_bad_diagonal),
                   Tail(ds))

\* is_eye(position, owner, stack)
is_eye(g, position, owner, st) ==
  IF ~is_eyeish(g, position, owner) THEN [res |-> FALSE, stack |-> st]
  ELSE is_eye_loop(g, position, owner, st, diagonals(position), 0)

\* ------------------------------------------------------------ legal moves
\* The two caches are None or a list; a list l is held as <<l>>, which keeps
\* the empty list apart from None.
\* The loop of get_legal_moves works on w = [g, heap, stack, raised].
get_legal_moves_append(w, p, eye) ==
  IF eye.res
  THEN [w EXCEPT !.stack = eye.stack,
                 !.g = [w.g EXCEPT !.legal_eyes_cache = << Append(w.g.legal_eyes_cache[1], p) >>]]
  ELSE [w EXCEPT !.stack = eye.stack,
                 !.g = [w.g EXCEPT !.legal_move_cache = << Append(w.g.legal_move_cache[1], p) >>]]

\* One pass of the loop, is_legal having answered `legal` for p.
get_legal_moves_step(w, p, legal) ==
  IF legal.raised # "none"
  THEN [g |-> w.g, heap |-> legal.heap, stack |-> w.stack, raised |-> legal.raised]
  ELSE IF legal.res
  THEN get_legal_moves_append([g |-> w.g, heap |-> legal.heap, stack |-> w.stack, raised |-> "none"],
                              p, is_eye(w.g, p, w.g.current_player, w.stack))
  ELSE [g |-> w.g, heap |-> legal.heap, stack |-> w.stack, raised |-> "none"]

RECURSIVE get_legal_moves_loop(_, _)
get_legal_moves_loop(w, ps) ==
  IF ps = << >> \/ w.raised # "none" THEN w
  ELSE get_legal_moves_loop(get_legal_moves_step(w, Head(ps), is_legal(w.g, w.heap, Head(ps))),
                            Tail(ps))

\* The value get_legal_moves returns from the filled caches.
get_legal_moves_cached(g, include_eyes) ==
  IF include_eyes THEN g.legal_move_cache[1] \o g.legal_eyes_cache[1]
  ELSE g.legal_move_cache[1]

\* The caches filled by the loop, then the call on itself.
get_legal_moves_filled(w, include_eyes) ==
  [ g |-> w.g, heap |-> w.heap, stack |-> w.stack, raised |-> w.raised,
    res |-> IF w.raised = "none" THEN get_legal_moves_cached(w.g, include_eyes) ELSE None ]

\* get_legal_moves(include_eyes)
get_legal_moves(g, h, include_eyes, st) ==
  IF g.legal_move_cache # None
  THEN [ g |-> g, heap |-> h, stack |-> st, raised |-> "none",
         res |-> get_legal_moves_cached(g, include_eyes) ]
  ELSE get_legal_moves_filled(
         get_legal_moves_loop(
           [ g |-> [g EXCEPT !.legal_move_cache = << << >> >>, !.legal_eyes_cache = << << >> >>],
             heap |-> h, stack |-> st, raised |-> "none" ],
           SetToSeq(Pos)),
         include_eyes)

\* ---------------------------------------------------------------- RWLock
\* The processes that use one RWLock.
Procs == 1 .. NumProcs

\* RWLock.__init__: two free locks and a shared counter at 0.  An mp.Lock
\* has no owner: it is locked (TRUE) or free (FALSE).  No process is inside
\* a call; lock_tmp is the value a process read for its += or -=.
InitLock ==
  /\ w_pending = FALSE
  /\ r_lock = FALSE
  /\ r_count = 0
  /\ lock_pc = [p \in Procs |-> "idle"]
  /\ lock_tmp = [p \in Procs |-> 0]
  /\ lock_calls = 0

\* ------------------------------------------------------------ Block_Conn
\* The messages sent.
Msgs == 1 .. NumMsgs

\* Block_Pipe(): one Block_Conn, used by one sender and one receiver.  Each
\* of its two pipes is the list of what was sent into it and not yet
\* received.  sent, taken and returned record the calls: the messages given
\* to send, the messages a recv took from the data pipe, and the number of
\* send calls that have returned.
InitConn ==
  /\ data = << >>
  /\ ack = << >>
  /\ send_pc = "idle"
  /\ recv_pc = "idle"
  /\ recv_msg = 0
  /\ sent = << >>
  /\ taken = << >>
  /\ returned = 0

\* ------------------------------------------------------------- Reception
\* The processes that call req, and the indices of the connections.
Clients == 1 .. NumClients
ConnIdx == 0 .. conn_num - 1

\* What the server sends back for the request r.
Response(r) == <<"response", r>>

\* Reception.__init__: an empty request queue, conn_num pipes with nothing
\* in them, and every index in conn_idx_queue.  No client is inside req
\* (req_r and req_res are the request and the result of a client's last
\* call, 0 and None before it), and the server holds no request.
InitReception ==
  /\ queue = << >>
  /\ conn_idx_queue = [k \in 1 .. conn_num |-> k - 1]
  /\ conns = [i \in ConnIdx |-> << >>]
  /\ req_pc = [p \in Clients |-> "idle"]
  /\ req_i = [p \in Clients |-> 0]
  /\ req_r = [p \in Clients |-> 0]
  /\ req_res = [p \in Clients |-> None]
  /\ held = {}
  /\ req_calls = 0

InitUtil == InitLock /\ InitConn /\ InitReception

\* ------------------------------------------------------------ the system
\* Inputs of the calls.
Komi2Choices == {2, 15}
OffBoardMoves == {<<0, Size>>, <<-1, 0>>}
Moves == ((0 .. 1) \X (0 .. Size - 1)) \cup {PASS_MOVE} \cup OffBoardMoves
Colors == {BLACK, WHITE}
KoMoves == {<<0, 0>>, <<0, 1>>, <<0, 2>>, <<1, 0>>, <<1, 1>>, PASS_MOVE}
RowMoves == ((0 .. 1) \X (0 .. Size - 1)) \cup {PASS_MOVE}
EyeMoves ==
  ({<<0, 1>>, <<1, 0>>, <<1, 1>>, <<1, 2>>, <<2, 1>>} \X {BLACK})
    \cup ({<<1, 1>>, <<2, 2>>} \X {WHITE})
CopyMoves == {<<0, 0>>, <<0, 1>>, <<1, 0>>, <<1, 1>>, PASS_MOVE}
HandicapLists ==
  { << <<1, 1>> >>, << <<0, 1>>, <<1, 0>> >>, << <<0, 0>>, <<0, 0>> >> }

NoCall == [op |-> "none", action |-> None, color |-> 0, actions |-> << >>,
           raised |-> "none", ended |-> FALSE, winner |-> 0,
           include_eyes |-> FALSE, eye |-> FALSE, returned |-> None]

Init ==
  /\ \E k \in Komi2Choices : s = NewGameState(k, FALSE, 0)
  /\ c = NewGameState(0, FALSE, 0)
  /\ copied = FALSE
  /\ heap = NewHeapObjects
  /\ result = NoCall
  /\ seen = {}
  /\ stack = << >>
  /\ InitUtil

\* s.do_move(action, color), the moves applied so far (handicap stones
\* included) being fewer than max_moves and the passes at most max_passes.
DoMove(action, color, max_moves, max_passes) ==
  /\ ~copied
  /\ Len(s.history) + Len(s.handicaps) < max_moves
  /\ action = PASS_MOVE => s.passes_black + s.passes_white < max_passes
  /\ \E m \in {do_move(s, heap, action, color)} :
         /\ s' = m.g
         /\ heap' = m.heap
         /\ result' = [NoCall EXCEPT !.op = "do_move", !.action = action, !.color = color,
                                     !.raised = m.raised, !.ended = m.ended]
         /\ seen' = IF m.raised = "none" /\ action # PASS_MOVE
                    THEN seen \cup {m.g.board} ELSE seen
  /\ UNCHANGED <<c, copied, stack>>
  /\ UNCHANGED utilVars

\* s.place_handicaps(actions)
PlaceHandicaps(actions) ==
  /\ ~copied
  /\ Len(s.handicaps) + Len(actions) <= MaxHandicaps
  /\ \E m \in {place_handicaps(s, heap, actions)} :
         /\ s' = m.g
         /\ heap' = m.heap
         /\ result' = [NoCall EXCEPT !.op = "place_handicaps", !.actions = actions,
                                     !.raised = m.raised]
  /\ UNCHANGED <<c, copied, seen, stack>>
  /\ UNCHANGED utilVars

\* Any call with any colour on the whole board, to a small depth.
Next ==
  \/ \E a \in Moves, col \in Colors : DoMove(a, col, MaxMoves, MaxMoves)
  \/ \E l \in HandicapLists : PlaceHandicaps(l)

Spec == Init /\ [][Next]_vars

\* Alternating play (the colour argument omitted) in one corner of the
\* board, deep enough for a ko and its recapture.
InitKo ==
  /\ \E e \in BOOLEAN : s = NewGameState(15, e, 0)
  /\ c = NewGameState(0, FALSE, 0)
  /\ copied = FALSE
  /\ heap = NewHeapObjects
  /\ result = NoCall
  /\ seen = {}
  /\ stack = << >>
  /\ InitUtil

NextKo ==
  \E a \in KoMoves : DoMove(a, 0, MaxKoMoves, MaxKoPasses)

SpecKo == InitKo /\ [][NextKo]_vars

\* Alternating play on the two rows at the top edge, deep enough for one
\* stone to capture two separate stones.
InitRow ==
  /\ s = NewGameState(15, FALSE, 0)
  /\ c = NewGameState(0, FALSE, 0)
  /\ copied = FALSE
  /\ heap = NewHeapObjects
  /\ result = NoCall
  /\ seen = {}
  /\ stack = << >>
  /\ InitUtil

NextRow ==
  \E a \in RowMoves : DoMove(a, 0, MaxRowMoves, MaxRowPasses)

SpecRow == InitRow /\ [][NextRow]_vars

\* c = s.copy()
Copy ==
  /\ ~copied
  /\ \E m \in {copy(s, heap)} :
         /\ c' = m.g
         /\ heap' = m.heap
  /\ copied' = TRUE
  /\ result' = [NoCall EXCEPT !.op = "copy"]
  /\ UNCHANGED <<s, seen, stack>>
  /\ UNCHANGED utilVars

\* c.do_move(action)
CopyDoMove(action) ==
  /\ copied
  /\ Len(c.history) < MaxCopyDepth
  /\ action = PASS_MOVE => c.passes_black + c.passes_white < MaxCopyPasses
  /\ \E m \in {do_move(c, heap, action, 0)} :
         /\ c' = m.g
         /\ heap' = m.heap
         /\ result' = [NoCall EXCEPT !.op = "copy_do_move", !.action = action,
                                     !.raised = m.raised, !.ended = m.ended]
  /\ UNCHANGED <<s, copied, seen, stack>>
  /\ UNCHANGED utilVars

\* Alternating play on s, a copy taken at some point, then play on the copy.
NextCopy ==
  \/ \E a \in CopyMoves : DoMove(a, 0, MaxCopyDepth, MaxCopyPasses)
  \/ Copy
  \/ \E a \in CopyMoves : CopyDoMove(a)

SpecCopy == Init /\ [][NextCopy]_vars

\* s.do_move(action) and then c.do_move(action): the same move on the
\* original and on its copy.
PairDoMove(action) ==
  /\ copied
  /\ Len(s.history) < MaxPairMoves
  /\ action = PASS_MOVE => s.passes_black + s.passes_white < MaxPairPasses
  /\ \E m \in {do_move(s, heap, action, 0)} :
       \E n \in {do_move(c, m.heap, action, 0)} :
         /\ s' = m.g
         /\ c' = n.g
         /\ heap' = n.heap
         /\ result' = [NoCall EXCEPT !.op = "pair_do_move", !.action = action,
                                     !.raised = m.raised, !.ended = m.ended]
  /\ UNCHANGED <<copied, seen, stack>>
  /\ UNCHANGED utilVars

\* Alternating play on s, a copy taken at some point, then the same moves on
\* both.
NextPair ==
  \/ \E a \in CopyMoves : DoMove(a, 0, MaxPairMoves, MaxPairPasses)
  \/ Copy
  \/ \E a \in CopyMoves : PairDoMove(a)

SpecPair == InitKo /\ [][NextPair]_vars

\* s.is_eye(position, owner), the stack argument left to its default.
IsEye(position, owner) ==
  /\ ~copied
  /\ \E r \in {is_eye(s, position, owner, stack)} :
         /\ stack' = r.stack
         /\ result' = [NoCall EXCEPT !.op = "is_eye", !.action = position, !.color = owner,
                                     !.eye = r.res]
  /\ UNCHANGED <<s, c, copied, heap, seen>>
  /\ UNCHANGED utilVars

\* s.get_legal_moves(include_eyes)
GetLegalMoves(include_eyes) ==
  /\ ~copied
  /\ \E m \in {get_legal_moves(s, heap, include_eyes, stack)} :
         /\ s' = m.g
         /\ heap' = m.heap
         /\ stack' = m.stack
         /\ result' = [NoCall EXCEPT !.op = "get_legal_moves", !.include_eyes = include_eyes,
                                     !.raised = m.raised, !.returned = m.res]
  /\ UNCHANGED <<c, copied, seen>>
  /\ UNCHANGED utilVars

\* Black stones put around the centre and a corner, white stones on the
\* diagonals, with eye and legal-move queries in between.
NextEye ==
  \/ \E m \in EyeMoves : DoMove(m[1], m[2], MaxEyeMoves, 0)
  \/ \E p \in Pos, owner \in Colors : IsEye(p, owner)
  \/ \E e \in BOOLEAN : GetLegalMoves(e)

SpecEye == InitRow /\ [][NextEye]_vars

\* The tracker used on its own: a stone of the player to move is put at the
\* empty point p as do_move puts it (board, hash, _update_neighbors), and
\* its group is taken off again at once with _remove_group.
remove_placed(w, p) == remove_group(w.g, w.heap, w.g.group_sets[p])

place_and_remove(g, h, p) ==
  remove_placed(
    update_neighbors(update_hash([g EXCEPT !.board[p] = g.current_player], p, g.current_player),
                     h, p),
    p)

PlaceAndRemove(p) ==
  /\ ~copied
  /\ result.op # "place_remove"
  /\ s.board[p] = EMPTY
  /\ \E m \in {place_and_remove(s, heap, p)} :
         /\ s' = m.g
         /\ heap' = m.heap
  /\ result' = [NoCall EXCEPT !.op = "place_remove", !.action = p]
  /\ UNCHANGED <<c, copied, seen, stack>>
  /\ UNCHANGED utilVars

\* Alternating play on the two top rows, then one stone put and removed.
NextTracker ==
  \/ \E a \in RowMoves : result.op # "place_remove" /\ DoMove(a, 0, MaxTrackerMoves, 1)
  \/ \E p \in Pos : PlaceAndRemove(p)

SpecTracker == InitRow /\ [][NextTracker]_vars

\* ------------------------------------------------------- RWLock, steps
\* One statement of a call, or one access to r_count.value, is one step:
\* `self.r_count.value += 1` reads the value and then writes it, and nothing
\* makes the two one unit.
LockGoto(p, from, to) ==
  /\ lock_pc[p] = from
  /\ lock_pc' = [lock_pc EXCEPT ![p] = to]

\* A process calls r_acquire or w_acquire.
CallRAcquire(p) ==
  /\ lock_calls < MaxLockCalls
  /\ LockGoto(p, "idle", "ra_w_pending")
  /\ lock_calls' = lock_calls + 1
  /\ UNCHANGED <<w_pending, r_lock, r_count, lock_tmp>>
  /\ UNCHANGED <<goVars, connVars, recVars>>

CallWAcquire(p) ==
  /\ lock_calls < MaxLockCalls
  /\ LockGoto(p, "idle", "wa_w_pending")
  /\ lock_calls' = lock_calls + 1
  /\ UNCHANGED <<w_pending, r_lock, r_count, lock_tmp>>
  /\ UNCHANGED <<goVars, connVars, recVars>>

\* r_acquire: self.w_pending.acquire()
RAcquirePending(p) ==
  /\ ~w_pending
  /\ LockGoto(p, "ra_w_pending", "ra_read")
  /\ w_pending' = TRUE
  /\ UNCHANGED <<r_lock, r_count, lock_tmp, lock_calls>>
  /\ UNCHANGED <<goVars, connVars, recVars>>

\* r_acquire: self.r_count.value += 1, the read
RAcquireRead(p) ==
  /\ LockGoto(p, "ra_read", "ra_write")
  /\ lock_tmp' = [lock_tmp EXCEPT ![p] = r_count]
  /\ UNCHANGED <<w_pending, r_lock, r_count, lock_calls>>
  /\ UNCHANGED <<goVars, connVars, recVars>>

\* r_acquire: self.r_count.value += 1, the write
RAcquireWrite(p) ==
  /\ LockGoto(p, "ra_write", "ra_test")
  /\ r_count' = lock_tmp[p] + 1
  /\ UNCHANGED <<w_pending, r_lock, lock_tmp, lock_calls>>
  /\ UNCHANGED <<goVars, connVars, recVars>>

\* r_acquire: if self.r_count.value == 1
RAcquireTest(p) ==
  /\ LockGoto(p, "ra_test", IF r_count = 1 THEN "ra_r_lock" ELSE "ra_release")
  /\ UNCHANGED <<w_pending, r_lock, r_count, lock_tmp, lock_calls>>
  /\ UNCHANGED <<goVars, connVars, recVars>>

\* r_acquire: self.r_lock.acquire()
RAcquireLock(p) ==
  /\ ~r_lock
  /\ LockGoto(p, "ra_r_lock", "ra_release")
  /\ r_lock' = TRUE
  /\ UNCHANGED <<w_pending, r_count, lock_tmp, lock_calls>>
  /\ UNCHANGED <<goVars, connVars, recVars>>

\* A release of an mp.Lock that is free raises ValueError.
\* r_acquire: self.w_pending.release(); r_acquire returns.
RAcquireRelease(p) ==
  /\ LockGoto(p, "ra_release", IF w_pending THEN "reading" ELSE "raised")
  /\ w_pending' = FALSE
  /\ UNCHANGED <<r_lock, r_count, lock_tmp, lock_calls>>
  /\ UNCHANGED <<goVars, connVars, recVars>>

\* The reader calls r_release: self.r_count.value -= 1, the read
RReleaseRead(p) ==
  /\ LockGoto(p, "reading", "rr_write")
  /\ lock_tmp' = [lock_tmp EXCEPT ![p] = r_count]
  /\ UNCHANGED <<w_pending, r_lock, r_count, lock_calls>>
  /\ UNCHANGED <<goVars, connVars, recVars>>

\* r_release: self.r_count.value -= 1, the write
RReleaseWrite(p) ==
  /\ LockGoto(p, "rr_write", "rr_test")
  /\ r_count' = lock_tmp[p] - 1
  /\ UNCHANGED <<w_pending, r_lock, lock_tmp, lock_calls>>
  /\ UNCHANGED <<goVars, connVars, recVars>>

\* r_release: if self.r_count.value == 0; r_release returns when it is not.
RReleaseTest(p) ==
  /\ LockGoto(p, "rr_test", IF r_count = 0 THEN "rr_r_lock" ELSE "idle")
  /\ UNCHANGED <<w_pending, r_lock, r_count, lock_tmp, lock_calls>>
  /\ UNCHANGED <<goVars, connVars, recVars>>

\* r_release: self.r_lock.release(); r_release returns.
RReleaseLock(p) ==
  /\ LockGoto(p, "rr_r_lock", IF r_lock THEN "idle" ELSE "raised")
  /\ r_lock' = FALSE
  /\ UNCHANGED <<w_pending, r_count, lock_tmp, lock_calls>>
  /\ UNCHANGED <<goVars, connVars, recVars>>

\* w_acquire: self.w_pending.acquire()
WAcquirePending(p) ==
  /\ ~w_pending
  /\ LockGoto(p, "wa_w_pending", "wa_r_lock")
  /\ w_pending' = TRUE
  /\ UNCHANGED <<r_lock, r_count, lock_tmp, lock_calls>>
  /\ UNCHANGED <<goVars, connVars, recVars>>

\* w_acquire: self.r_lock.acquire(); w_acquire returns.
WAcquireLock(p) ==
  /\ ~r_lock
  /\ LockGoto(p, "wa_r_lock", "writing")
  /\ r_lock' = TRUE
  /\ UNCHANGED <<w_pending, r_count, lock_tmp, lock_calls>>
  /\ UNCHANGED <<goVars, connVars, recVars>>

\* The writer calls w_release: self.r_lock.release()
WReleaseLock(p) ==
  /\ LockGoto(p, "writing", IF r_lock THEN "wr_w_pending" ELSE "raised")
  /\ r_lock' = FALSE
  /\ UNCHANGED <<w_pending, r_count, lock_tmp, lock_calls>>
  /\ UNCHANGED <<goVars, connVars, recVars>>

\* w_release: self.w_pending.release(); w_release returns.
WReleasePending(p) ==
  /\ LockGoto(p, "wr_w_pending", IF w_pending THEN "idle" ELSE "raised")
  /\ w_pending' = FALSE
  /\ UNCHANGED <<r_lock, r_count, lock_tmp, lock_calls>>
  /\ UNCHANGED <<goVars, connVars, recVars>>

\* The steps of process p inside a call it has made, and its calls of the
\* release that belongs to what it holds.
LockStep(p) ==
  \/ RAcquirePending(p) \/ RAcquireRead(p) \/ RAcquireWrite(p) \/ RAcquireTest(p)
  \/ RAcquireLock(p) \/ RAcquireRelease(p)
  \/ RReleaseRead(p) \/ RReleaseWrite(p) \/ RReleaseTest(p) \/ RReleaseLock(p)
  \/ WAcquirePending(p) \/ WAcquireLock(p)
  \/ WReleaseLock(p) \/ WReleasePending(p)

\* Processes that acquire for reading or writing and release what they hold,
\* in any interleaving.
NextLock ==
  \/ \E p \in Procs : CallRAcquire(p)
  \/ \E p \in Procs : CallWAcquire(p)
  \/ \E p \in Procs : LockStep(p)

SpecLock == InitRow /\ [][NextLock]_vars

\* The steps that wait for an mp.Lock to be free.
LockAcquireStep(p) ==
  \/ RAcquirePending(p) \/ RAcquireLock(p) \/ WAcquirePending(p) \/ WAcquireLock(p)

\* Fair scheduling: a process that can take a step inside a call, or call
\* the release of what it holds, does so in the end, and a process waiting
\* for a lock that is free again and again gets it.  Calls of r_acquire and
\* w_acquire are made or not, as the processes choose.
SpecLockFair ==
  /\ SpecLock
  /\ \A p \in Procs : WF_vars(LockStep(p)) /\ SF_vars(LockAcquireStep(p))

\* ------------------------------------------------------ Block_Conn, steps
\* The sender returns from send without waiting for the acknowledgement.
SendAck_no_wait ==
  /\ send_pc = "ack"
  /\ send_pc' = "idle"
  /\ returned' = returned + 1
  /\ UNCHANGED <<data, ack, recv_pc, recv_msg, sent, taken>>
  /\ UNCHANGED <<goVars, lockVars, recVars>>

\* send(msg): self.data_s.send(msg)
SendData(msg) ==
  /\ Len(sent) < MaxSends
  /\ send_pc = "idle"
  /\ send_pc' = "ack"
  /\ data' = Append(data, msg)
  /\ sent' = Append(sent, msg)
  /\ UNCHANGED <<ack, recv_pc, recv_msg, taken, returned>>
  /\ UNCHANGED <<goVars, lockVars, recVars>>

\* send(msg): self.ack_r.recv(), which waits for an acknowledgement; send
\* returns.
SendAck ==
  /\ send_pc = "ack"
  /\ ack # << >>
  /\ ack' = Tail(ack)
  /\ send_pc' = "idle"
  /\ returned' = returned + 1
  /\ UNCHANGED <<data, recv_pc, recv_msg, sent, taken>>
  /\ UNCHANGED <<goVars, lockVars, recVars>>

\* recv(): msg = self.data_r.recv(), which waits for a message.
RecvData ==
  /\ recv_pc = "idle"
  /\ data # << >>
  /\ recv_msg' = Head(data)
  /\ taken' = Append(taken, Head(data))
  /\ data' = Tail(data)
  /\ recv_pc' = "ack"
  /\ UNCHANGED <<ack, send_pc, sent, returned>>
  /\ UNCHANGED <<goVars, lockVars, recVars>>

\* recv(): self.ack_s.send(True); recv returns msg.
RecvAck ==
  /\ recv_pc = "ack"
  /\ ack' = Append(ack, TRUE)
  /\ recv_pc' = "idle"
  /\ UNCHANGED <<data, send_pc, recv_msg, sent, taken, returned>>
  /\ UNCHANGED <<goVars, lockVars, recVars>>

\* One process that sends and one that receives, in any interleaving.
NextConn ==
  \/ \E msg \in Msgs : SendData(msg)
  \/ SendAck
  \/ RecvData
  \/ RecvAck

SpecConn == InitRow /\ [][NextConn]_vars

\* ------------------------------------------------------- Reception, steps
\* req taking the first index of the pool without removing it.
ReqGetIdx_keeps_index(p) ==
  /\ req_pc[p] = "get_idx"
  /\ conn_idx_queue # << >>
  /\ req_i' = [req_i EXCEPT ![p] = Head(conn_idx_queue)]
  /\ req_pc' = [req_pc EXCEPT ![p] = "put"]
  /\ UNCHANGED <<queue, conn_idx_queue, conns, req_r, req_res, held, req_calls>>
  /\ UNCHANGED <<goVars, lockVars, connVars>>

\* A client calls req(r); the requests are numbered as they are made.
CallReq(p) ==
  /\ req_calls < MaxReqs
  /\ req_pc[p] = "idle"
  /\ req_calls' = req_calls + 1
  /\ req_r' = [req_r EXCEPT ![p] = req_calls + 1]
  /\ req_res' = [req_res EXCEPT ![p] = None]
  /\ req_pc' = [req_pc EXCEPT ![p] = "get_idx"]
  /\ UNCHANGED <<queue, conn_idx_queue, conns, req_i, held>>
  /\ UNCHANGED <<goVars, lockVars, connVars>>

\* req: i = self.conn_idx_queue.get(), which waits for an index.
ReqGetIdx(p) ==
  /\ req_pc[p] = "get_idx"
  /\ conn_idx_queue # << >>
  /\ req_i' = [req_i EXCEPT ![p] = Head(conn_idx_queue)]
  /\ conn_idx_queue' = Tail(conn_idx_queue)
  /\ req_pc' = [req_pc EXCEPT ![p] = "put"]
  /\ UNCHANGED <<queue, conns, req_r, req_res, held, req_calls>>
  /\ UNCHANGED <<goVars, lockVars, connVars>>

\* req: self.queue.put((r, s_conn)), which waits while the queue holds
\* conn_num items.  The connection is named by its index.
ReqPut(p) ==
  /\ req_pc[p] = "put"
  /\ Len(queue) < conn_num
  /\ queue' = Append(queue, [r |-> req_r[p], conn |-> req_i[p]])
  /\ req_pc' = [req_pc EXCEPT ![p] = "recv"]
  /\ UNCHANGED <<conn_idx_queue, conns, req_i, req_r, req_res, held, req_calls>>
  /\ UNCHANGED <<goVars, lockVars, connVars>>

\* req: res = r_conn.recv(), which waits for something on connection i.
ReqRecv(p) ==
  /\ req_pc[p] = "recv"
  /\ conns[req_i[p]] # << >>
  /\ req_res' = [req_res EXCEPT ![p] = Head(conns[req_i[p]])]
  /\ conns' = [conns EXCEPT ![req_i[p]] = Tail(@)]
  /\ req_pc' = [req_pc EXCEPT ![p] = "put_idx"]
  /\ UNCHANGED <<queue, conn_idx_queue, req_i, req_r, held, req_calls>>
  /\ UNCHANGED <<goVars, lockVars, connVars>>

\* req: self.conn_idx_queue.put(i), which waits while the pool holds
\* conn_num indices; req returns res.
ReqPutIdx(p) ==
  /\ req_pc[p] = "put_idx"
  /\ Len(conn_idx_queue) < conn_num
  /\ conn_idx_queue' = Append(conn_idx_queue, req_i[p])
  /\ req_pc' = [req_pc EXCEPT ![p] = "idle"]
  /\ UNCHANGED <<queue, conns, req_i, req_r, req_res, held, req_calls>>
  /\ UNCHANGED <<goVars, lockVars, connVars>>

\* The server: get() takes the first (r, conn) of the queue.
ServerGet ==
  /\ queue # << >>
  /\ held' = held \cup {Head(queue)}
  /\ queue' = Tail(queue)
  /\ UNCHANGED <<conn_idx_queue, conns, req_pc, req_i, req_r, req_res, req_calls>>
  /\ UNCHANGED <<goVars, lockVars, connVars>>

\* The server answers one (r, conn) it holds, once, on that conn.
ServerAnswer(x) ==
  /\ x \in held
  /\ conns' = [conns EXCEPT ![x.conn] = Append(@, Response(x.r))]
  /\ held' = held \ {x}
  /\ UNCHANGED <<queue, conn_idx_queue, req_pc, req_i, req_r, req_res, req_calls>>
  /\ UNCHANGED <<goVars, lockVars, connVars>>

\* More clients than connections, and a server that answers what it got in
\* any order.
NextReception ==
  \/ \E p \in Clients : CallReq(p)
  \/ \E p \in Clients : ReqGetIdx(p)
  \/ \E p \in Clients : ReqPut(p)
  \/ \E p \in Clients : ReqRecv(p)
  \/ \E p \in Clients : ReqPutIdx(p)
  \/ ServerGet
  \/ \E x \in held : ServerAnswer(x)

SpecReception == InitRow /\ [][NextReception]_vars

\* --------------------------------------------------------------- readings
\* What a caller reads of a state: its fields, with each set object replaced
\* by its contents.
View(g, h) ==
  [g EXCEPT !.group_sets = [p \in Pos |-> h[g.group_sets[p]]],
            !.liberty_sets = [p \in Pos |-> h[g.liberty_sets[p]]]]

\* The stones 4-connected to p through stones of p's colour, from the board.
RECURSIVE Flood(_, _, _)
Flood(board, col, G) ==
  LET G1 == G \cup {q \in UNION {NeighborSet(p) : p \in G} : board[q] = col}
  IN  IF G1 = G THEN G ELSE Flood(board, col, G1)

TrueGroup(board, p) == Flood(board, board[p], {p})

\* The empty cells next to any stone of p's group, from the board.
TrueLiberties(board, p) ==
  {q \in UNION {NeighborSet(m) : m \in TrueGroup(board, p)} : board[q] = EMPTY}

\* The hash of a board from scratch: bit b is set iff an odd number of the
\* stones on the board have bit b set in their table entry.
BoardHash(board) ==
  {b \in 0 .. 63 :
     Cardinality({p \in Pos : board[p] # EMPTY /\ b \in hash_lookup[board[p]][p]}) % 2 = 1}

Rejected(r) == r.op = "do_move" /\ r.raised = "IllegalMove"
Applied(r) == r.op = "do_move" /\ r.raised = "none"

C2_HashMatchesBoard == s.current_hash = BoardHash(s.board)

\* C2 witness: a stone was captured and stones remain on the board.
C2_Witness ==
  /\ Applied(result)
  /\ s.num_black_prisoners + s.num_white_prisoners > 0
  /\ s.current_hash # {}

\* C3: for every stone, the cached liberty count and the size of its liberty
\* set both equal the number of empty cells next to its connected group.
C3_LibertyCountsTrue ==
  \A p \in Pos :
    s.board[p] # EMPTY =>
      LET true_count == Cardinality(TrueLiberties(s.board, p))
      IN  /\ s.liberty_counts[p] = true_count
          /\ Cardinality(heap[s.liberty_sets[p]]) = true_count

\* C3 witness: after a capture, a group of two or more stones has liberties.
C3_Witness ==
  /\ Applied(result)
  /\ s.num_black_prisoners + s.num_white_prisoners > 0
  /\ \E p \in Pos : /\ s.board[p] # EMPTY
                    /\ Cardinality(TrueGroup(s.board, p)) >= 2
                    /\ s.liberty_counts[p] >= 2

\* The last action applied and the board it was applied to.
LastMove(g) == g.history[Len(g.history)]
PreBoard(g) == g.board_history[Len(g.board_history)]

\* The classic ko shape, read from the boards: the last move put a stone that
\* captured exactly one stone, at y, and that stone is now a group of one
\* whose only liberty is y.
KoShapeAt(g, y) ==
  /\ Len(g.history) > 0
  /\ LastMove(g) # PASS_MOVE
  /\ {p \in Pos : PreBoard(g)[p] # EMPTY /\ g.board[p] = EMPTY} = {y}
  /\ TrueGroup(g.board, LastMove(g)) = {LastMove(g)}
  /\ TrueLiberties(g.board, LastMove(g)) = {y}

\* C4: after a capture in the classic ko shape the opponent's immediate
\* recapture at the captured point is rejected, and any one successful move
\* elsewhere leaves a state whose ko point is no longer that point, so the ko
\* rule no longer rejects the recapture.
C4_KoRejectedThenCleared ==
  [][\A y \in Pos :
       KoShapeAt(s, y) =>
         /\ (result'.op = "do_move" /\ result'.action = y) => (Rejected(result') /\ s' = s)
         /\ (Applied(result') /\ result'.action # y) => s'.ko # y]_vars

\* C4 witness: the recapture of a ko was tried at once and rejected.
C4_Witness ==
  /\ Rejected(result)
  /\ KoShapeAt(s, result.action)

\* After the ko capture and one pass by each player the recapture was made.
C4_RecaptureAfterPasses ==
  s.history = << <<0, 2>>, <<0, 1>>, <<1, 1>>, <<1, 0>>, <<0, 0>>,
                 PASS_MOVE, PASS_MOVE, <<0, 1>> >>

C6_CopyMovesLeaveOriginal ==
  [][result'.op = "copy_do_move" => (s' = s /\ View(s', heap') = View(s, heap))]_vars

\* C6 witness: a move on the copy captured stones that stand on the original.
C6_Witness ==
  /\ result.op = "copy_do_move"
  /\ result.raised = "none"
  /\ c.num_black_prisoners + c.num_white_prisoners
       > s.num_black_prisoners + s.num_white_prisoners

\* Everything a caller can read of a state.
Queryable(g, h) ==
  [ board |-> g.board, current_player |-> g.current_player, ko |-> g.ko,
    history |-> g.history, board_history |-> g.board_history,
    handicaps |-> g.handicaps, current_hash |-> g.current_hash,
    previous_hashes |-> g.previous_hashes,
    groups |-> [p \in Pos |-> h[g.group_sets[p]]],
    liberties |-> [p \in Pos |-> h[g.liberty_sets[p]]],
    liberty_counts |-> g.liberty_counts,
    num_black_prisoners |-> g.num_black_prisoners,
    num_white_prisoners |-> g.num_white_prisoners,
    passes_black |-> g.passes_black, passes_white |-> g.passes_white,
    is_end_of_game |-> g.is_end_of_game, stone_ages |-> g.stone_ages,
    winner |-> get_winner(g) ]

\* C7: a copy agrees with the state it was taken of on everything a caller
\* can read, the pass counters, is_end_of_game, the stone ages and the winner
\* included.
C7_CopyIsFullSnapshot ==
  result.op = "copy" => Queryable(c, heap) = Queryable(s, heap)

\* The winner of a copy differs from the winner of the state copied.
C7_WinnerDiffers == result.op = "copy" /\ get_winner(c) # get_winner(s)

\* C8: when black passes and white passes right after, the do_move of
\* white's pass returns game-ended and is_end_of_game is true.
C8_EndOnBlackThenWhitePass ==
  ( /\ Applied(result)
    /\ Len(s.history) > 1
    /\ LastMove(s) = PASS_MOVE
    /\ s.history[Len(s.history) - 1] = PASS_MOVE
    /\ s.current_player = BLACK )
  => (result.ended /\ s.is_end_of_game)

\* Area scoring from the board: twice each side's score.
AreaBlack2(g) ==
  2 * ( Cardinality({p \in Pos : g.board[p] = BLACK})
      + Cardinality({p \in Pos : g.board[p] = EMPTY
                                 /\ \A n \in NeighborSet(p) : g.board[n] = BLACK})
      - g.passes_black )

AreaWhite2(g) ==
  2 * ( Cardinality({p \in Pos : g.board[p] = WHITE})
      + Cardinality({p \in Pos : g.board[p] = EMPTY
                                 /\ \A n \in NeighborSet(p) : g.board[n] = WHITE})
      - g.passes_white ) + g.komi2

C9_EmptyBoardTwoPasses ==
  s.board = EmptyBoard /\ s.passes_black = 1 /\ s.passes_white = 1 /\ get_winner(s) = WHITE

\* A drawn position.
C9_Draw == Len(s.history) > 0 /\ AreaBlack2(s) = AreaWhite2(s) /\ get_winner(s) = 0

\* A list of distinct empty on-board positions.
ValidHandicaps(g, actions) ==
  /\ \A i \in 1 .. Len(actions) : on_board(actions[i]) /\ g.board[actions[i]] = EMPTY
  /\ \A i, j \in 1 .. Len(actions) : i # j => actions[i] # actions[j]

\* C10: place_handicaps on a state with no recorded move and distinct empty
\* on-board positions completes normally, leaves a BLACK stone with correct
\* group, liberty and hash data on each, and leaves the move history empty.
C10_HandicapsPlaced ==
  [][( /\ result'.op = "place_handicaps"
       /\ Len(s.history) = 0
       /\ ValidHandicaps(s, result'.actions) )
     => ( /\ result'.raised = "none"
          /\ \A i \in 1 .. Len(result'.actions) : s'.board[result'.actions[i]] = BLACK
          /\ s'.history = << >>
          /\ s'.current_hash = BoardHash(s'.board)
          /\ \A p \in Pos : s'.board[p] # EMPTY =>
               /\ heap'[s'.group_sets[p]] = TrueGroup(s'.board, p)
               /\ heap'[s'.liberty_sets[p]] = TrueLiberties(s'.board, p) )]_vars

\* The same with the exception left aside: what place_handicaps leaves.
C10_HandicapsPlacedButRaises ==
  [][( /\ result'.op = "place_handicaps"
       /\ Len(s.history) = 0
       /\ ValidHandicaps(s, result'.actions) )
     => ( /\ result'.raised = "NameError"
          /\ \A i \in 1 .. Len(result'.actions) : s'.board[result'.actions[i]] = BLACK
          /\ s'.history = << >>
          /\ s'.current_hash = BoardHash(s'.board)
          /\ \A p \in Pos : s'.board[p] # EMPTY =>
               /\ heap'[s'.group_sets[p]] = TrueGroup(s'.board, p)
               /\ heap'[s'.liberty_sets[p]] = TrueLiberties(s'.board, p) )]_vars

\* C11: a place_handicaps that fails with IllegalMove leaves the state as it
\* was before the call: no stone of the list on the board, the handicaps
\* list not extended.
C11_FailedHandicapsLeaveState ==
  [][(result'.op = "place_handicaps" /\ result'.raised = "IllegalMove")
       => (s' = s /\ View(s', heap') = View(s, heap))]_vars

\* The part of C11 about a started game: the call is refused before anything
\* is written.
C11_StartedGameLeavesState ==
  [][(result'.op = "place_handicaps" /\ Len(s.history) > 0)
       => (result'.raised = "IllegalMove" /\ s' = s /\ heap' = heap)]_vars

\* A place_handicaps that failed on a position of its list, after it had put
\* an earlier stone and extended the handicaps list.
C11_PartialHandicaps ==
  /\ result.op = "place_handicaps"
  /\ result.raised = "IllegalMove"
  /\ Len(s.handicaps) > 0
  /\ \E p \in Pos : s.board[p] = BLACK

\* The board after a stone of col is put on the empty point a and every
\* enemy group next to a that is left without liberties is taken off.
PlaceAndCapture(board, col, a) ==
  LET b1 == [board EXCEPT ![a] = col]
      dead == UNION {TrueGroup(b1, n) :
                       n \in {m \in NeighborSet(a) : /\ b1[m] = -col
                                                     /\ TrueLiberties(b1, m) = {}}}
  IN  [p \in Pos |-> IF p \in dead THEN EMPTY ELSE b1[p]]

SuicideByBoard(board, col, a) == TrueLiberties(PlaceAndCapture(board, col, a), a) = {}

\* a has an empty neighbour, or a friendly neighbour group with a liberty
\* other than a, or an enemy neighbour group whose only liberty is a.
SavedByNeighbor(board, col, a) ==
  \E n \in NeighborSet(a) :
    \/ board[n] = EMPTY
    \/ board[n] = col /\ TrueLiberties(board, n) \ {a} # {}
    \/ board[n] = -col /\ TrueLiberties(board, n) = {a}

\* C12: for every empty point a, is_suicide(a) is true exactly when the
\* current player's stone at a, after the enemy groups it kills are removed,
\* is in a group without liberties; equivalently, it is false exactly when a
\* has an empty neighbour, a friendly neighbour group with another liberty,
\* or an enemy neighbour group whose only liberty is a.
C12_SuicideIffNoLiberty ==
  \A a \in Pos :
    s.board[a] = EMPTY =>
      \E suicide \in {is_suicide(s, heap, a)} :
        /\ suicide = SuicideByBoard(s.board, s.current_player, a)
        /\ suicide = ~SavedByNeighbor(s.board, s.current_player, a)

\* C12 witness: an empty point with enemy stones on every side is not
\* suicide, because the stone would kill one of them.
C12_Witness ==
  \E a \in Pos :
    /\ s.board[a] = EMPTY
    /\ \A n \in NeighborSet(a) : s.board[n] = -s.current_player
    /\ ~is_suicide(s, heap, a)

\* An empty point that is suicide for the player to move.
C12_SuicidePoint ==
  \E a \in Pos : s.board[a] = EMPTY /\ is_suicide(s, heap, a)

\* get_group
get_group(g, h, position) == h[g.group_sets[position]]

\* C13: for every stone p, get_group(p) is the maximal set of points
\* 4-connected to p through stones of p's colour; two stones of one connected
\* group store one and the same set; get_group of an empty point is empty.
C13_GroupsAreConnectedComponents ==
  \A p \in Pos :
    IF s.board[p] = EMPTY
    THEN get_group(s, heap, p) = {}
    ELSE \E G \in {TrueGroup(s.board, p)} :
           /\ get_group(s, heap, p) = G
           /\ \A q \in G : s.group_sets[q] = s.group_sets[p]

\* C13 witness: after a capture, a stone joined its neighbours into a group
\* of three or more.
C13_Witness ==
  /\ Applied(result)
  /\ result.action # PASS_MOVE
  /\ s.num_black_prisoners + s.num_white_prisoners > 0
  /\ Cardinality(get_group(s, heap, result.action)) >= 3

\* C14: no group of either colour on the board is without liberties: the
\* enemy groups a stone left without liberties were removed, and the stone's
\* own group has a liberty.
C14_NoGroupWithoutLiberty ==
  \A p \in Pos : s.board[p] # EMPTY => TrueLiberties(s.board, p) # {}

\* C14 witness: the stone just played took enemy stones off the board and its
\* group is left with exactly one liberty.
C14_Witness ==
  /\ Applied(result)
  /\ result.action # PASS_MOVE
  /\ \E q \in Pos : PreBoard(s)[q] = -s.board[result.action] /\ s.board[q] = EMPTY
  /\ Cardinality(TrueLiberties(s.board, result.action)) = 1

\* The stones the last move took off the board.
Captured(g) == {q \in Pos : PreBoard(g)[q] # EMPTY /\ g.board[q] = EMPTY}

\* C15: after a successful stone move at p, a ko point that is set is the
\* only liberty of p, p is a group of one stone, and the ko point is where
\* the one captured stone stood; after a pass, or a move that captured no
\* single stone, ko is None.
C15_KoOnlyForKoShape ==
  Applied(result) =>
    IF result.action = PASS_MOVE
    THEN s.ko = None
    ELSE /\ s.ko # None =>
              /\ TrueGroup(s.board, result.action) = {result.action}
              /\ TrueLiberties(s.board, result.action) = {s.ko}
              /\ s.ko \in Captured(s)
         /\ (\A q \in Captured(s) : TrueGroup(PreBoard(s), q) # {q}) => s.ko = None

\* One stone captured two separate stones: ko is set although the stone is
\* left with two liberties.
C15_KoWithTwoLiberties ==
  /\ Applied(result)
  /\ s.ko # None
  /\ Cardinality(Captured(s)) = 2
  /\ Cardinality(TrueLiberties(s.board, LastMove(s))) = 2


\* ---------------------------------------------------------------- C16
\* The positions a state's player may play: those is_legal accepts.
LegalActions(g, h) == {p \in Pos : is_legal(g, h, p).res}

\* Two states hold the same position: board, contents of the group and
\* liberty sets, liberty counts, ko, hash and legal actions agree.
SamePosition(g, gc, h) ==
  /\ gc.board = g.board
  /\ \A p \in Pos : /\ h[gc.group_sets[p]] = h[g.group_sets[p]]
                    /\ h[gc.liberty_sets[p]] = h[g.liberty_sets[p]]
  /\ gc.liberty_counts = g.liberty_counts
  /\ gc.ko = g.ko
  /\ gc.current_hash = g.current_hash
  /\ LegalActions(gc, h) = LegalActions(g, h)

\* Two states share set objects between the same positions.
SameAliasing(g, gc) ==
  \A p, q \in Pos :
     /\ (gc.group_sets[p] = gc.group_sets[q]) = (g.group_sets[p] = g.group_sets[q])
     /\ (gc.liberty_sets[p] = gc.liberty_sets[q]) = (g.liberty_sets[p] = g.liberty_sets[q])

\* C16: once c = s.copy() is taken and the same moves are made on both, after
\* the copy and after every move the two hold the same board, group sets,
\* liberty sets, liberty counts, ko, hash and legal actions, and positions
\* share a set in c exactly when they share one in s.
C16_CopyTracksOriginal ==
  copied => (SamePosition(s, c, heap) /\ SameAliasing(s, c))

\* A move made on both, after which a group of two or more stones stands on
\* the board and a stone has been captured.
C16_Witness ==
  /\ result.op = "pair_do_move"
  /\ result.raised = "none"
  /\ result.action # PASS_MOVE
  /\ \E p, q \in Pos : p # q /\ s.board[p] # EMPTY /\ s.group_sets[p] = s.group_sets[q]
  /\ c.num_white_prisoners + c.num_black_prisoners > 0


\* ---------------------------------------------------------------- C17
\* C17: every is_eye call returns, and it leaves the shared list `stack` as
\* it found it: empty between calls, so that a call's answer is the answer
\* computed from the board, the position and the owner with an empty stack.
C17_StackRestored ==
  /\ stack = << >>
  /\ result.op = "is_eye" =>
       result.eye = is_eye(s, result.action, result.color, << >>).res

\* An is_eye call that went into the recursion: the position is eyeish and
\* has an empty diagonal.
C17_Witness ==
  /\ result.op = "is_eye"
  /\ is_eyeish(s, result.action, result.color)
  /\ \E i \in 1 .. Len(diagonals(result.action)) :
        /\ s.board[diagonals(result.action)[i]] = EMPTY
        /\ is_eyeish(s, diagonals(result.action)[i], result.color)


\* ---------------------------------------------------------------- C18
\* The on-board diagonal points of p.
DiagonalSet(p) ==
  {q \in Pos : (q[1] - p[1]) \in {-1, 1} /\ (q[2] - p[2]) \in {-1, 1}}

\* p is empty and every orthogonal neighbour holds a stone of owner.
Eyeish(board, p, owner) ==
  board[p] = EMPTY /\ \A n \in NeighborSet(p) : board[n] = owner

\* The bad diagonals of p for owner: an opponent stone, or an empty point
\* that is_eye does not call an eye of owner.
BadDiagonals(g, p, owner) ==
  {d \in DiagonalSet(p) :
     \/ g.board[d] = -owner
     \/ g.board[d] = EMPTY /\ ~is_eye(g, d, owner, << >>).res}

C18_TrueEye ==
  /\ result.op = "is_eye"
  /\ result.eye
  /\ \A d \in DiagonalSet(result.action) : s.board[d] = result.color

\* is_eye asked about an eyeish point with an opponent stone on a diagonal.
C18_OpponentDiagonal ==
  /\ result.op = "is_eye"
  /\ Eyeish(s.board, result.action, result.color)
  /\ \E d \in DiagonalSet(result.action) : s.board[d] = -result.color


\* ---------------------------------------------------------------- C19
\* The elements of a list.
Elements(l) == {l[i] : i \in 1 .. Len(l)}

\* The eyes of the player to move.
OwnEyes(g) == {p \in Pos : is_eye(g, p, g.current_player, << >>).res}

\* C19: whatever queries, moves and rejected moves came before, the list
\* get_legal_moves(include_eyes=True) returns holds exactly the positions
\* is_legal accepts for the player to move, and the list for
\* include_eyes=False exactly those of them that are not is_eye for that
\* player.
C19_LegalMovesNeverStale ==
  (result.op = "get_legal_moves" /\ result.raised = "none") =>
    \E legal \in {LegalActions(s, heap)} :
      /\ result.include_eyes => Elements(result.returned) = legal
      /\ ~result.include_eyes => Elements(result.returned) = legal \ OwnEyes(s)

\* A query without eyes, after moves, that leaves out a legal point which is
\* an eye of the player to move.
C19_Witness ==
  /\ result.op = "get_legal_moves"
  /\ ~result.include_eyes
  /\ Len(s.history) > 0
  /\ \E p \in LegalActions(s, heap) \cap OwnEyes(s) : ~InSeq(p, result.returned)


\* ---------------------------------------------------------------- C20
\* The stone put at p joins no other stone: p has no neighbour of the colour
\* to move.
StandsAlone(g, p) == \A n \in NeighborSet(p) : g.board[n] # g.current_player

\* C20: a stone put at p that joins no other stone and is removed at once
\* leaves the liberty set of every neighbour of p, stone or empty point,
\* with the contents it had before.
C20_PlaceRemoveRestoresLiberties ==
  [][(result'.op = "place_remove" /\ StandsAlone(s, result'.action)) =>
       \A n \in NeighborSet(result'.action) :
          heap'[s'.liberty_sets[n]] = heap[s.liberty_sets[n]]]_vars

\* The same for the neighbours that hold a stone.
C20_StoneNeighborsRestored ==
  [][(result'.op = "place_remove" /\ StandsAlone(s, result'.action)) =>
       \A n \in NeighborSet(result'.action) :
          s.board[n] # EMPTY => heap'[s'.liberty_sets[n]] = heap[s.liberty_sets[n]]]_vars

\* After a stone was put and removed, an empty neighbour of the point lacks
\* it in its liberty set although the point is empty again.
C20_EmptyNeighborLosesLiberty ==
  /\ result.op = "place_remove"
  /\ s.board[result.action] = EMPTY
  /\ \E n \in NeighborSet(result.action) :
        /\ s.board[n] = EMPTY
        /\ result.action \notin heap[s.liberty_sets[n]]

\* A stone was put next to an opponent stone and removed.
C20_NextToStone ==
  /\ result.op = "place_remove"
  /\ \E n \in NeighborSet(result.action) : s.board[n] = -s.current_player


\* ---------------------------------------------------------------- C21
\* The processes that hold the lock for writing, and for reading: the
\* acquire has returned and the release has not been called.
Writers == {p \in Procs : lock_pc[p] = "writing"}
Readers == {p \in Procs : lock_pc[p] = "reading"}

\* No process is inside r_acquire past its first statement or inside
\* r_release.
NoReaderInCall ==
  \A p \in Procs : lock_pc[p] \in {"idle", "reading", "writing", "raised",
                                   "ra_w_pending", "wa_w_pending", "wa_r_lock",
                                   "wr_w_pending"}

\* C21: while a process holds the lock for writing no other process holds it
\* for writing and none holds it for reading; r_count is the number of
\* readers that hold the lock.
C21_MutualExclusion ==
  /\ Writers # {} => (Cardinality(Writers) = 1 /\ Readers = {})
  /\ NoReaderInCall => r_count = Cardinality(Readers)

\* A writer and a reader hold the lock together.
C21_WriterWithReader == Writers # {} /\ Readers # {}

\* No process is in a call and r_count differs from the number of readers.
C21_CountWrong ==
  /\ \A p \in Procs : lock_pc[p] \in {"idle", "reading", "writing"}
  /\ r_count # Cardinality(Readers)


\* ---------------------------------------------------------------- C22
\* Process p is inside r_acquire or w_acquire.
Acquiring(p) ==
  lock_pc[p] \in {"ra_w_pending", "ra_read", "ra_write", "ra_test", "ra_r_lock",
                  "ra_release", "wa_w_pending", "wa_r_lock"}

\* C22: under fair scheduling, with every holder releasing in the end, every
\* call of r_acquire and of w_acquire returns in the end.
C22_AcquireReturns ==
  \A p \in Procs : Acquiring(p) ~> (lock_pc[p] \in {"reading", "writing"})

\* Nobody holds the lock or is inside r_release, r_lock is locked, and a
\* writer waits for it with w_pending taken: no step is left.
C22_Deadlock ==
  /\ r_lock
  /\ \E p \in Procs : lock_pc[p] = "wa_r_lock"
  /\ \A p \in Procs : lock_pc[p] \in {"idle", "raised", "ra_w_pending", "wa_w_pending",
                                      "wa_r_lock"}


\* ---------------------------------------------------------------- C23
\* C23: with one sender and one receiver, the messages taken by recv are the
\* first of the messages sent, in the order sent and each once, and a send
\* has returned only when its message has been taken.
C23_Rendezvous ==
  /\ Len(taken) <= Len(sent)
  /\ taken = SubSeq(sent, 1, Len(taken))
  /\ returned <= Len(taken)
  /\ send_pc = "idle" => returned = Len(sent)

\* Three sends have returned, of messages that are not all the same.
C23_Witness ==
  /\ returned = MaxSends
  /\ send_pc = "idle"
  /\ \E i, j \in 1 .. Len(taken) : taken[i] # taken[j]


\* ---------------------------------------------------------------- C24
\* The clients whose request holds a connection index: the index was taken
\* from the pool and not put back.
InFlight == {p \in Clients : req_pc[p] \in {"put", "recv", "put_idx"}}

\* C24: no index is held by two requests in flight; a req that has its
\* result has the response made for its own request; and when no request
\* holds an index every index is in the pool, once.
C24_ResponsesRouted ==
  /\ \A p, q \in InFlight : p # q => req_i[p] # req_i[q]
  /\ \A p \in Clients : req_res[p] # None => req_res[p] = Response(req_r[p])
  /\ InFlight = {} =>
       /\ Len(conn_idx_queue) = conn_num
       /\ {conn_idx_queue[k] : k \in 1 .. conn_num} = ConnIdx

\* A req has returned with its response while every index is held by other
\* requests in flight, one of them answered by the server and not yet
\* received.
C24_Witness ==
  /\ \E p \in Clients : req_pc[p] = "idle" /\ req_res[p] # None
  /\ Cardinality(InFlight) = conn_num
  /\ \E i \in ConnIdx : conns[i] # << >>

\* A client waits for an index while all of them are held.
C24_ClientWaits ==
  /\ \E q \in Clients : req_pc[q] = "get_idx"
  /\ conn_idx_queue = << >>
  /\ Cardinality(InFlight) = conn_num

\* All requests made have returned and the pool is full again.
C24_AllReturned ==
  /\ req_calls = MaxReqs
  /\ \A p \in Clients : req_pc[p] = "idle"
  /\ Len(conn_idx_queue) = conn_num

====
